---- MODULE Spec2Model ----
(***************************************************************************)
(* The package lifecycle of the marketplace: the server                    *)
(* (src/server/server.ts) with the catalog store, the asset directories,   *)
(* the two gated write endpoints and the two read endpoints, and the       *)
(* package view (src/src/pages/[lang]/catalog/package/[...packageName]     *)
(* .astro) with its media branches and its install toggle.  A handler is   *)
(* cut at the awaits that touch the store or the filesystem: what runs     *)
(* between two awaits runs without interruption on the event loop, so each *)
(* piece is one action.  Package names are opaque identifiers (one         *)
(* directory per name) and the store and the filesystem answer without     *)
(* faults of their own.                                                    *)
(***************************************************************************)
EXTENDS Integers, Sequences, FiniteSets, TLC

VARIABLES
    enabled,   \* parsedDoc.marketplace.enabled, fixed at start
    store,     \* rows of catalog_assets, in insertion order
    fs,        \* database_assets: directory name -> (file name -> content)
    slot,      \* handlers suspended at an await, per connection
    last,      \* the request that took the latest step, with what it sent
    lastOk,    \* package name -> <<body>> of the latest create answered 200
    themes,    \* localStorage: names of the installed themes
    plugins,   \* localStorage: descriptors of the installed plugins
    view,      \* the package view on screen: record, media, buttons
    pending,   \* install/uninstall round trips not yet settled
    event      \* the latest thing that happened in the browser

server == <<enabled, store, fs, slot, last, lastOk>>

client == <<themes, plugins, view, pending, event>>

vars == <<server, client>>

\* ---------------------------------------------------------------- inputs

\* parsedDoc.marketplace.psk
ConfigPsk == "secret"

Psks == {"secret", "guess"}

\* identifiers a caller supplies as uuid, packagename or :package
Names == {1, 2}

\* connections that can have a handler suspended at the same time
Slots == {"c1", "c2"}

FileNames == {"main.css"}

Contents == {"v1"}

\* the packagename header: absent, or a name
Headers == {<<>>} \cup {<<n>> : n \in Names}

\* request.file(): undefined, or the uploaded file
Files == {<<>>} \cup {<<[filename |-> f, content |-> b]>> : f \in FileNames, b \in Contents}

\* largest ?page= value tried
MaxPage == 3

\* most rows in a catalog the listing is tried on
MaxSeed == 41

\* stands for SQL NULL / an absent optional field
Null == "null"

\* request bodies of create-package, without the uuid
Bodies ==
    { [title |-> "Aurora", image |-> "aurora.png", author |-> "ann",
       version |-> "1.0", description |-> "a theme", tags |-> "dark",
       payload |-> "aurora.css", background_video |-> "aurora.mp4",
       background_image |-> Null, type |-> "theme"],
      [title |-> "Blocker", image |-> "blocker.png", author |-> "bob",
       version |-> "2.1", description |-> "a plugin", tags |-> Null,
       payload |-> "blocker.js", background_video |-> Null,
       background_image |-> "blocker.jpg", type |-> "plugin-page"] }

\* ---------------------------------------------------------------- store

NoRow == [package_name |-> 0]

\* catalogAssets.findOne({ where: { package_name } }): the row or null
FindOne(rows, name) ==
    IF \E i \in 1..Len(rows) : rows[i].package_name = name
    THEN rows[CHOOSE i \in 1..Len(rows) :
                /\ rows[i].package_name = name
                /\ \A j \in 1..(i - 1) : rows[j].package_name # name]
    ELSE NoRow

\* a table without the unique constraint
NoUniqueViolation(rows, name) == FALSE

\* the unique constraint on package_name: does inserting name violate it
UniqueViolation(rows, name) ==
    \E i \in 1..Len(rows) : rows[i].package_name = name

\* a create that stores the video name in the background_image column
RowOfCrossed(uuid, body) ==
    [package_name |-> uuid,
     title |-> body.title,
     image |-> body.image,
     author |-> body.author,
     version |-> body.version,
     description |-> body.description,
     tags |-> body.tags,
     payload |-> body.payload,
     background_video |-> body.background_video,
     background_image |-> body.background_video,
     type |-> body.type]

\* the row catalogAssets.create builds from the request body
RowOf(uuid, body) ==
    [package_name |-> uuid,
     title |-> body.title,
     image |-> body.image,
     author |-> body.author,
     version |-> body.version,
     description |-> body.description,
     tags |-> body.tags,
     payload |-> body.payload,
     background_video |-> body.background_video,
     background_image |-> body.background_image,
     type |-> body.type]

\* a create that writes over the newest row instead of adding one
InsertOverNewest(rows, uuid, body) ==
    IF rows = <<>> THEN <<RowOf(uuid, body)>>
    ELSE [rows EXCEPT ![Len(rows)] = RowOf(uuid, body)]

\* catalogAssets.create: the table after a successful insert
Insert(rows, uuid, body) == Append(rows, RowOf(uuid, body))

\* ---------------------------------------------------------------- filesystem

\* access(`${assets}/${name}/`, F_OK) resolves
DirExists(dirs, name) == name \in DOMAIN dirs

\* a mkdir that creates nothing
MkdirNothing(dirs, name) == dirs

\* mkdir(`${assets}/${name}/`): the tree with the new, empty directory
Mkdir(dirs, name) ==
    [d \in DOMAIN dirs \cup {name} |->
        IF d = name THEN <<>> ELSE dirs[d]]

\* pipeline(data.file, createWriteStream(dir/filename)): a truncating write
WriteFile(dirs, name, file) ==
    [dirs EXCEPT ![name] =
        [f \in DOMAIN dirs[name] \cup {file.filename} |->
            IF f = file.filename THEN file.content ELSE dirs[name][f]]]

\* ---------------------------------------------------------------- replies

Reply(code, msg) == [status |-> code, body |-> [status |-> msg]]

ErrorReply(code, msg) == [status |-> code, body |-> [error |-> msg]]

\* what the framework answers when a handler's promise rejects
Unhandled == [status |-> 500, body |-> [error |-> "Internal Server Error"]]

Idle == [op |-> "idle"]

\* ---------------------------------------------------------------- verifyReq

\* a verifyReq that forgets to compare the psk
VerifyReqNoPsk(on, psk, upload, packagename, data) ==
    IF ~on THEN [status |-> 500, error |-> "Marketplace Is disabled!"]
    ELSE IF upload /\ packagename = <<>>
        THEN [status |-> 500, error |-> "No packagename defined!"]
    ELSE IF upload /\ data = <<>>
        THEN [status |-> 400, error |-> "No file uploaded!"]
    ELSE [status |-> 200, error |-> ""]

\* verifyReq(request, upload, data): the status and the error message, or
\* "" for no error.  packagename and data are <<>> when absent, <<v>> else.
VerifyReq(on, psk, upload, packagename, data) ==
    IF ~on THEN [status |-> 500, error |-> "Marketplace Is disabled!"]
    ELSE IF psk # ConfigPsk THEN [status |-> 403, error |-> "PSK isn't correct!"]
    ELSE IF upload /\ packagename = <<>>
        THEN [status |-> 500, error |-> "No packagename defined!"]
    ELSE IF upload /\ data = <<>>
        THEN [status |-> 400, error |-> "No file uploaded!"]
    ELSE [status |-> 200, error |-> ""]

\* ---------------------------------------------------------------- create-package

\* POST /api/create-package up to the await of catalogAssets.create
CreateInsert(c, psk, uuid, body) ==
    LET verify == VerifyReq(enabled, psk, FALSE, <<>>, <<>>)
        req == [op |-> "create", psk |-> psk, uuid |-> uuid, body |-> body,
                prior |-> lastOk[uuid] # <<>>]
    IN  /\ slot[c] = Idle
        /\ IF verify.error # ""
           THEN /\ last' = req @@ [pc |-> "done",
                                   sends |-> <<Reply(verify.status, verify.error)>>]
                /\ UNCHANGED <<store, slot>>
           ELSE IF UniqueViolation(store, uuid)
           THEN /\ last' = req @@ [pc |-> "done", sends |-> <<Unhandled>>]
                /\ UNCHANGED <<store, slot>>
           ELSE /\ store' = Insert(store, uuid, body)
                /\ slot' = [slot EXCEPT ![c] = req @@ [pc |-> "access"]]
                /\ last' = req @@ [pc |-> "access", sends |-> <<>>]
        /\ UNCHANGED <<enabled, fs, lastOk, client>>

\* the await of access(): an existing directory answers "already exists".
\* Started on an empty asset root, a directory appears only after the insert
\* of its name and the unique constraint lets no second request past the
\* insert, so no run below takes the THEN branch here or in CreateMkdir.
CreateAccess(c) ==
    /\ slot[c].op = "create"
    /\ slot[c].pc = "access"
    /\ IF DirExists(fs, slot[c].uuid)
       THEN /\ slot' = [slot EXCEPT ![c] = Idle]
            /\ last' = [slot[c] EXCEPT !.pc = "done"] @@
                       [sends |-> <<Reply(500, "Package already exists!")>>]
       ELSE /\ slot' = [slot EXCEPT ![c].pc = "mkdir"]
            /\ last' = [slot[c] EXCEPT !.pc = "mkdir"] @@ [sends |-> <<>>]
    /\ UNCHANGED <<enabled, store, fs, lastOk, client>>

\* the await of mkdir() in the catch block, then the 200
CreateMkdir(c) ==
    /\ slot[c].op = "create"
    /\ slot[c].pc = "mkdir"
    /\ slot' = [slot EXCEPT ![c] = Idle]
    /\ IF DirExists(fs, slot[c].uuid)
       THEN /\ last' = [slot[c] EXCEPT !.pc = "done"] @@ [sends |-> <<Unhandled>>]
            /\ UNCHANGED <<fs, lastOk>>
       ELSE /\ fs' = Mkdir(fs, slot[c].uuid)
            /\ last' = [slot[c] EXCEPT !.pc = "done"] @@
                       [sends |-> <<Reply(200, "Package created successfully!")>>]
            /\ lastOk' = [lastOk EXCEPT ![slot[c].uuid] = <<slot[c].body>>]
    /\ UNCHANGED <<enabled, store, client>>

\* ---------------------------------------------------------------- upload-asset

\* a write that makes the missing directory instead of failing
PipelineCreatesDir(dirs, name, file) ==
    [ok |-> TRUE,
     dirs |-> WriteFile(IF DirExists(dirs, name) THEN dirs ELSE Mkdir(dirs, name),
                        name, file)]

\* await pipeline(data.file, createWriteStream(...)): createWriteStream
\* fails when the directory is missing and the write is not done
Pipeline(dirs, name, file) ==
    IF DirExists(dirs, name)
    THEN [ok |-> TRUE, dirs |-> WriteFile(dirs, name, file)]
    ELSE [ok |-> FALSE, dirs |-> dirs]

\* POST /api/upload-asset: verifyReq, then the write; the catch answers 500
UploadAsset(psk, packagename, data) ==
    LET verify == VerifyReq(enabled, psk, TRUE, packagename, data)
        req == [op |-> "upload", psk |-> psk, packagename |-> packagename,
                data |-> data, pc |-> "done"]
    IN  /\ IF verify.error # ""
           THEN /\ last' = req @@ [sends |-> <<Reply(verify.status, verify.error)>>]
                /\ UNCHANGED fs
           ELSE LET written == Pipeline(fs, packagename[1], data[1])
                IN  /\ fs' = written.dirs
                    /\ last' = req @@
                          [sends |-> IF written.ok
                               THEN <<Reply(verify.status, "File uploaded successfully!")>>
                               ELSE <<Reply(500, "File couldn't be uploaded!")>>]
        /\ UNCHANGED <<enabled, store, slot, lastOk, client>>

\* ---------------------------------------------------------------- packages/:package

\* the public fields the read endpoints copy out of a row
Details(row) ==
    [title |-> row.title,
     description |-> row.description,
     image |-> row.image,
     author |-> row.author,
     tags |-> row.tags,
     version |-> row.version,
     background_image |-> row.background_image,
     background_video |-> row.background_video,
     payload |-> row.payload,
     type |-> row.type]

\* GET /api/packages/:package
GetPackage(package) ==
    LET packageRow == FindOne(store, package)
        req == [op |-> "get", package |-> package, pc |-> "done"]
    IN  /\ last' = req @@
              [sends |-> IF packageRow = NoRow
                         THEN <<ErrorReply(404, "Package not found!")>>
                         ELSE <<[status |-> 200, body |-> Details(packageRow)]>>]
        /\ UNCHANGED <<enabled, store, fs, slot, lastOk, client>>

\* ---------------------------------------------------------------- catalog-assets

\* assets per page
PageSize == 20

\* the ?page= values a caller sends: none, a non-number, or an integer
Queries ==
    {[kind |-> "absent", n |-> 0], [kind |-> "junk", n |-> 0]}
        \cup {[kind |-> "int", n |-> k] : k \in -1..MaxPage}

NaN == [nan |-> TRUE, n |-> 0]

\* parseInt(page, 10)
ParseInt(page) ==
    IF page.kind = "int" THEN [nan |-> FALSE, n |-> page.n] ELSE NaN

\* parseInt(page, 10) || 1: NaN and 0 are falsy
PageNum(page) ==
    LET parsed == ParseInt(page)
    IN  IF parsed.nan \/ parsed.n = 0 THEN 1 ELSE parsed.n

\* an offset that forgets the "- 1"
OffsetFromPage(pageNum) == pageNum * PageSize

\* (pageNum - 1) * 20
Offset(pageNum) == (pageNum - 1) * PageSize

\* catalogAssets.count()
Count(rows) == Len(rows)

\* a findAll that stops one row short of the limit
FindAllShort(rows, offset, limit) ==
    SubSeq(rows, offset + 1,
           IF offset + limit - 1 < Len(rows) THEN offset + limit - 1 ELSE Len(rows))

\* catalogAssets.findAll({ offset, limit }) for an offset >= 0
FindAll(rows, offset, limit) ==
    SubSeq(rows, offset + 1,
           IF offset + limit < Len(rows) THEN offset + limit ELSE Len(rows))

\* dbAssets.reduce(...): an object keyed by package_name, later rows winning
RECURSIVE Assets(_)
Assets(rows) ==
    IF rows = <<>> THEN <<>>
    ELSE LET n == Len(rows)
             acc == Assets(SubSeq(rows, 1, n - 1))
         IN  [k \in DOMAIN acc \cup {rows[n].package_name} |->
                 IF k = rows[n].package_name THEN Details(rows[n]) ELSE acc[k]]

\* Math.ceil(totalItems / 20)
Pages(totalItems) == (totalItems + PageSize - 1) \div PageSize

\* GET /api/catalog-assets/ up to the await of count(): a page below 1
\* sends the 400 and the handler goes on
ListCount(c, page) ==
    LET pageNum == PageNum(page)
        sends == IF pageNum < 1
                 THEN <<ErrorReply(400, "Page must be a positive number!")>>
                 ELSE <<>>
        req == [op |-> "list", pageNum |-> pageNum, totalItems |-> Count(store),
                sends |-> sends, pc |-> "findAll"]
    IN  /\ slot[c] = Idle
        /\ slot' = [slot EXCEPT ![c] = req]
        /\ last' = req @@ [page |-> page]
        /\ UNCHANGED <<enabled, store, fs, lastOk, client>>

\* the body of the listing: { assets, pages: Math.ceil(totalItems / 20) }
Payload(dbAssets, totalItems) ==
    [assets |-> Assets(dbAssets), pages |-> Pages(totalItems)]

\* the await of findAll(), the reduce and the send.  A negative offset is
\* an error on postgres (the catch then sends the 500) and reads from the
\* first row on sqlite; a send after the first reaches no client.
ListFindAll(c) ==
    LET r == slot[c]
        offset == Offset(r.pageNum)
        code == IF r.sends = <<>> THEN 200 ELSE 400
        send(dbAssets) == [status |-> code, body |-> Payload(dbAssets, r.totalItems)]
    IN  /\ r.op = "list"
        /\ slot' = [slot EXCEPT ![c] = Idle]
        /\ \E postgres \in BOOLEAN :
              last' = [r EXCEPT
                  !.pc = "done",
                  !.sends = Append(@,
                      IF offset < 0
                      THEN IF postgres THEN ErrorReply(500, "An error occured")
                           ELSE send(FindAll(store, 0, PageSize))
                      ELSE send(FindAll(store, offset, PageSize)))]
        /\ UNCHANGED <<enabled, store, fs, lastOk, client>>

\* ---------------------------------------------------------------- package view

\* names a visitor opens: three packages of the catalog and one that is not
ViewNames == {1, 2, 3, 4}

\* most install/uninstall round trips awaiting the settings service at once
MaxPending == 2

\* the catalog the view is tried on: a theme with a video and a background
\* image, a page plugin with a background image only, a service worker
\* plugin with neither
ViewBodies ==
    <<[title |-> "Aurora", image |-> "aurora.png", author |-> "ann",
       version |-> "1.0", description |-> "a theme", tags |-> "dark",
       payload |-> "aurora.css", background_video |-> "aurora.mp4",
       background_image |-> "aurora.jpg", type |-> "theme"],
      [title |-> "Blocker", image |-> "blocker.png", author |-> "bob",
       version |-> "2.1", description |-> "a plugin", tags |-> Null,
       payload |-> "blocker.js", background_video |-> Null,
       background_image |-> "blocker.jpg", type |-> "plugin-page"],
      [title |-> "Cache", image |-> "cache.png", author |-> "cy",
       version |-> "0.3", description |-> "a worker", tags |-> Null,
       payload |-> "cache.js", background_video |-> Null,
       background_image |-> Null, type |-> "plugin-sw"]>>

\* what an earlier session can have left in localStorage
StoredThemes == {1, 3}

StoredPlugins ==
    { [name |-> 2, type |-> "page", remove |-> <<>>],
      [name |-> 3, type |-> "serviceWorker", remove |-> <<FALSE>>],
      [name |-> 3, type |-> "serviceWorker", remove |-> <<TRUE>>] }

\* a property the object does not have
Undefined == "undefined"

\* assetsJson.key
Field(json, key) == IF key \in DOMAIN json THEN json[key] ELSE Undefined

\* what && and ! take for true: not null, undefined or the empty string
Truthy(v) == v \notin {Null, Undefined, ""}

\* the frontmatter: fetch /api/packages/<packageName> and response.json()
Fetch(rows, packageName) ==
    LET packageRow == FindOne(rows, packageName)
    IN  IF packageRow = NoRow
        THEN ErrorReply(404, "Package not found!").body
        ELSE Details(packageRow)

\* JSON.stringify(assetsJson) into data-assets: the members, one by one
Stringify(json) == {<<k, json[k]>> : k \in DOMAIN json}

\* JSON.parse(assetsJson)
Parse(text) ==
    [k \in {member[1] : member \in text} |->
        (CHOOSE member \in text : member[1] = k)[2]]

\* the three media elements of the template, each behind its own condition
Media(assetsJson) ==
    LET video == Field(assetsJson, "background_video")
        backgroundImage == Field(assetsJson, "backgroundImage")
    IN  (IF Truthy(video)
         THEN {[branch |-> "video", src |-> video]} ELSE {})
        \cup
        (IF Truthy(backgroundImage)
         THEN {[branch |-> "background-image", src |-> backgroundImage]} ELSE {})
        \cup
        (IF ~Truthy(video) /\ ~Truthy(backgroundImage)
         THEN {[branch |-> "image", src |-> Field(assetsJson, "image")]} ELSE {})

\* no view opened yet
NoView ==
    [name |-> 0, error |-> FALSE, media |-> {}, buttons |-> FALSE,
     install |-> "none", uninstall |-> "none", assets |-> {}, type |-> Undefined]

\* the document the template renders: the error heading, or the media, the
\* Install button shown and the Uninstall button with class hidden; and the
\* variable-define element with data-assets, data-name and data-type
Document(packageName, assetsJson) ==
    IF Truthy(Field(assetsJson, "error"))
    THEN [name |-> packageName, error |-> TRUE, media |-> {}, buttons |-> FALSE,
          install |-> "none", uninstall |-> "none",
          assets |-> Stringify(assetsJson), type |-> Field(assetsJson, "type")]
    ELSE [name |-> packageName, error |-> FALSE, media |-> Media(assetsJson),
          buttons |-> TRUE, install |-> "shown", uninstall |-> "hidden",
          assets |-> Stringify(assetsJson), type |-> Field(assetsJson, "type")]

\* cssItems.indexOf(packageName) !== -1
CssItemExists(cssItems, packageName) == packageName \in cssItems

PluginItemExistsAny(pluginItems, packageName) ==
    \E item \in pluginItems : item.name = packageName

\* pluginItems.find(({ name, remove }) => name === packageName && remove !== true)
PluginItemExists(pluginItems, packageName) ==
    \E item \in pluginItems : item.name = packageName /\ item.remove # <<TRUE>>

\* fn up to the addEventListener calls: the buttons after the load.  On the
\* error page there are no buttons and fn stops at the first one it touches.
fn(doc, cssItems, pluginItems) ==
    IF ~doc.buttons THEN doc
    ELSE IF CssItemExists(cssItems, doc.name) \/ PluginItemExists(pluginItems, doc.name)
    THEN [doc EXCEPT !.uninstall = "shown", !.install = "hidden"]
    ELSE doc

InstallArgSwapped(payload, packageName) ==
    IF payload.type = "theme"
    THEN [theme |-> [payload |-> payload.payload,
                     video |-> payload.background_image,
                     bgImage |-> payload.background_video]]
    ELSE IF payload.type = "plugin-page"
    THEN [plugin |-> [name |-> packageName, src |-> payload.payload,
                      type |-> "serviceWorker"]]
    ELSE [plugin |-> [name |-> packageName, src |-> payload.payload,
                      type |-> "page"]]

\* the first argument of settings.marketPlaceSettings.install
InstallArg(payload, packageName) ==
    IF payload.type = "theme"
    THEN [theme |-> [payload |-> payload.payload,
                     video |-> payload.background_video,
                     bgImage |-> payload.background_image]]
    ELSE IF payload.type = "plugin-page"
    THEN [plugin |-> [name |-> packageName, src |-> payload.payload,
                      type |-> "page"]]
    ELSE [plugin |-> [name |-> packageName, src |-> payload.payload,
                      type |-> "serviceWorker"]]

\* nothing has happened in the browser yet
NoEvent == [type |-> "none", call |-> "none", args |-> <<>>, attached |-> FALSE]

\* the install click handler: the call it makes on the settings service.
\* attached says that the buttons its then-callback holds are on screen.
InstallCall(doc) ==
    LET payload == Parse(doc.assets)
    IN  [call |-> "install",
         args |-> <<InstallArg(payload, doc.name), doc.name, payload.payload>>,
         attached |-> TRUE]

\* the uninstall click handler: uninstall(packageType, packageName)
UninstallCall(doc) ==
    [call |-> "uninstall", args |-> <<doc.type, doc.name>>, attached |-> TRUE]

\* .then of install: hide Install, show Uninstall
InstallThen(doc) == [doc EXCEPT !.install = "hidden", !.uninstall = "shown"]

UninstallThenOneButton(doc) == [doc EXCEPT !.uninstall = "hidden"]

\* .then of uninstall: hide Uninstall, show Install
UninstallThen(doc) == [doc EXCEPT !.uninstall = "hidden", !.install = "shown"]

SettledFinally(doc, trip, resolved) ==
    IF ~trip.attached THEN doc
    ELSE IF trip.call = "install" THEN InstallThen(doc) ELSE UninstallThen(doc)

\* the promise of a round trip settles: .then runs on fulfilment only, and
\* there is no .catch; buttons of a replaced document are not on screen
Settled(doc, trip, resolved) ==
    IF ~trip.attached \/ ~resolved THEN doc
    ELSE IF trip.call = "install" THEN InstallThen(doc) ELSE UninstallThen(doc)

\* settings.marketPlaceSettings.install, as far as localStorage goes: the
\* theme's name joins the themes, the plugin's descriptor the plugins
SettingsInstall(stored, args) ==
    IF "theme" \in DOMAIN args[1]
    THEN [stored EXCEPT !.themes = @ \cup {args[2]}]
    ELSE [stored EXCEPT !.plugins =
              {item \in @ : item.name # args[2]} \cup
              {[name |-> args[2], type |-> args[1].plugin.type, remove |-> <<>>]}]

\* settings.marketPlaceSettings.uninstall: the theme's name leaves the
\* themes, the plugin's descriptor is marked remove
SettingsUninstall(stored, args) ==
    IF args[1] = "theme"
    THEN [stored EXCEPT !.themes = @ \ {args[2]}]
    ELSE [stored EXCEPT !.plugins =
              {IF item.name = args[2] THEN [item EXCEPT !.remove = <<TRUE>>] ELSE item
                  : item \in @}]

\* pageLoad(fn): a package view is opened.  The document is rendered anew
\* from the fetched record and fn reads localStorage; round trips started
\* from the document it replaces go on, their buttons no longer on screen.
ViewLoad(packageName) ==
    LET assetsJson == Fetch(store, packageName)
    IN  /\ view' = fn(Document(packageName, assetsJson), themes, plugins)
        /\ pending' = [i \in 1..Len(pending) |-> [pending[i] EXCEPT !.attached = FALSE]]
        /\ event' = [NoEvent EXCEPT !.type = "load"]
        /\ UNCHANGED <<themes, plugins, server>>

\* a click on the Install button, which a hidden button does not get
ClickInstall ==
    /\ view.buttons
    /\ view.install = "shown"
    /\ Len(pending) < MaxPending
    /\ pending' = Append(pending, InstallCall(view))
    /\ event' = [type |-> "click"] @@ InstallCall(view)
    /\ UNCHANGED <<themes, plugins, view, server>>

\* a click on the Uninstall button
ClickUninstall ==
    /\ view.buttons
    /\ view.uninstall = "shown"
    /\ Len(pending) < MaxPending
    /\ pending' = Append(pending, UninstallCall(view))
    /\ event' = [type |-> "click"] @@ UninstallCall(view)
    /\ UNCHANGED <<themes, plugins, view, server>>

\* the round trip i is fulfilled: the service has stored its change and
\* the then-callback runs
RoundTripResolves(i) ==
    LET trip == pending[i]
        stored == [themes |-> themes, plugins |-> plugins]
        after == IF trip.call = "install" THEN SettingsInstall(stored, trip.args)
                 ELSE SettingsUninstall(stored, trip.args)
    IN  /\ themes' = after.themes
        /\ plugins' = after.plugins
        /\ view' = Settled(view, trip, TRUE)
        /\ pending' = SubSeq(pending, 1, i - 1) \o SubSeq(pending, i + 1, Len(pending))
        /\ event' = [type |-> "resolved"] @@ trip
        /\ UNCHANGED server

\* the round trip i is rejected: nothing is stored and no callback runs
RoundTripFails(i) ==
    LET trip == pending[i]
    IN  /\ view' = Settled(view, trip, FALSE)
        /\ pending' = SubSeq(pending, 1, i - 1) \o SubSeq(pending, i + 1, Len(pending))
        /\ event' = [type |-> "failed"] @@ trip
        /\ UNCHANGED <<themes, plugins, server>>

\* what the client receives: the first send of the request
Response(r) == r.sends[1]

\* ---------------------------------------------------------------- specification

Init ==
    /\ enabled \in BOOLEAN
    /\ store = <<>>
    /\ fs = <<>>
    /\ slot = [c \in Slots |-> Idle]
    /\ last = [op |-> "none", sends |-> <<>>]
    /\ lastOk = [n \in Names |-> <<>>]
    /\ themes = {}
    /\ plugins = {}
    /\ view = NoView
    /\ pending = <<>>
    /\ event = NoEvent

Next ==
    \/ \E c \in Slots, psk \in Psks, uuid \in Names, body \in Bodies :
          CreateInsert(c, psk, uuid, body)
    \/ \E c \in Slots : CreateAccess(c)
    \/ \E c \in Slots : CreateMkdir(c)
    \/ \E psk \in Psks, packagename \in Headers, data \in Files :
          UploadAsset(psk, packagename, data)
    \/ \E package \in Names : GetPackage(package)
    \/ \E c \in Slots, page \in Queries : ListCount(c, page)
    \/ \E c \in Slots : ListFindAll(c)

Spec == Init /\ [][Next]_vars

\* A server started on a catalog that earlier runs have filled: rows
\* 1..n in insertion order, each with its directory.  Only the listing
\* runs, so the rows stay as they are between calls.
SeedBody == CHOOSE b \in Bodies : b.type = "theme"

InitList ==
    /\ enabled \in BOOLEAN
    /\ \E n \in 0..MaxSeed :
          /\ store = [i \in 1..n |-> RowOf(i, SeedBody)]
          /\ fs = [d \in 1..n |-> <<>>]
    /\ slot = [c \in Slots |-> Idle]
    /\ last = [op |-> "none", sends |-> <<>>]
    /\ lastOk = [n \in Names |-> <<>>]
    /\ themes = {}
    /\ plugins = {}
    /\ view = NoView
    /\ pending = <<>>
    /\ event = NoEvent

NextList ==
    \/ \E c \in Slots, page \in Queries : ListCount(c, page)
    \/ \E c \in Slots : ListFindAll(c)

SpecList == InitList /\ [][NextList]_vars

\* A browser on a catalog of three packages, with what earlier sessions
\* left in localStorage.  Only the package view runs.
InitView ==
    /\ enabled = TRUE
    /\ store = [i \in 1..Len(ViewBodies) |-> RowOf(i, ViewBodies[i])]
    /\ fs = [d \in 1..Len(ViewBodies) |-> <<>>]
    /\ slot = [c \in Slots |-> Idle]
    /\ last = [op |-> "none", sends |-> <<>>]
    /\ lastOk = [n \in Names |-> <<>>]
    /\ themes \in SUBSET StoredThemes
    /\ plugins \in SUBSET StoredPlugins
    /\ view = NoView
    /\ pending = <<>>
    /\ event = NoEvent

NextView ==
    \/ \E packageName \in ViewNames : ViewLoad(packageName)
    \/ ClickInstall
    \/ ClickUninstall
    \/ \E i \in 1..Len(pending) : RoundTripResolves(i)
    \/ \E i \in 1..Len(pending) : RoundTripFails(i)

SpecView == InitView /\ [][NextView]_vars

\* ---------------------------------------------------------------- properties

\* the write request of the latest step passes the flag and the psk check
Authorized(r) == enabled /\ r.psk = ConfigPsk

\* the rows of the table that carry a package name
RowsOf(rows, name) == SelectSeq(rows, LAMBDA row : row.package_name = name)

CreateInProgress == \E c \in Slots : slot[c].op = "create"

\* C1: a create-package or upload-asset request made while the marketplace
\* is disabled or with a psk other than the configured one is rejected
\* (500 "Marketplace Is disabled!" or 403 "PSK isn't correct!") and its step
\* leaves the store and the directories with their files as they were.
C1_RejectedWriteChangesNothing ==
    [][(last'.op \in {"create", "upload"} /\ ~Authorized(last'))
         => /\ last'.pc = "done"
            /\ Response(last') = IF enabled
                                 THEN Reply(403, "PSK isn't correct!")
                                 ELSE Reply(500, "Marketplace Is disabled!")
            /\ store' = store
            /\ fs' = fs]_vars

\* a wrong psk was turned away on a catalog that has a package with a file
C1_Witness ==
    /\ last.op = "upload"
    /\ enabled
    /\ last.psk # ConfigPsk
    /\ last.packagename # <<>>
    /\ last.data # <<>>
    /\ Response(last).status = 403
    /\ store # <<>>
    /\ \E d \in DOMAIN fs : fs[d] # <<>>

C3_SecondCreateFails ==
    [][(last'.op = "create" /\ Authorized(last') /\ last'.prior)
         => /\ last'.sends # <<>> => Response(last').status = 500
            /\ last'.pc = "done"
            /\ RowsOf(store', last'.uuid) = RowsOf(store, last'.uuid)
            /\ Len(RowsOf(store', last'.uuid)) = 1
            /\ Details(RowsOf(store', last'.uuid)[1]) = lastOk[last'.uuid][1]
            /\ DirExists(fs, last'.uuid)
            /\ fs' = fs]_vars

\* a second create, with another body, on a package that holds a file
C3_Witness ==
    /\ last.op = "create"
    /\ Authorized(last)
    /\ last.prior
    /\ last.pc = "done"
    /\ last.body # lastOk[last.uuid][1]
    /\ fs[last.uuid] # <<>>

\* C4: every authorized create-package that finds the directory of its
\* uuid present answers 500 "Package already exists!", and every other one
\* creates the directory and answers 200 "Package created successfully!".
C4_CreateAnswers ==
    [][(last'.op = "create" /\ Authorized(last') /\ last'.pc = "done")
         => IF DirExists(fs, last'.uuid)
            THEN /\ Response(last') = Reply(500, "Package already exists!")
                 /\ fs' = fs
            ELSE /\ Response(last') = Reply(200, "Package created successfully!")
                 /\ DirExists(fs', last'.uuid)]_vars

CeilPages(n) ==
    CHOOSE k \in 0..n : k * PageSize >= n /\ (k = 0 \/ (k - 1) * PageSize < n)

\* C6: on a catalog that stays as it is, the listing of a page >= 1 answers
\* 200 with pages = ceil(rows / 20) and with the rows at offsets
\* (page-1)*20 .. (page-1)*20+19 that exist, at most 20, keyed by name with
\* their public fields; past the last page the assets are empty.
C6_ListPage ==
    (last.op = "list" /\ last.pc = "done" /\ last.pageNum >= 1)
        => LET r == Response(last)
               n == Len(store)
               from == (last.pageNum - 1) * 20 + 1
               to == IF last.pageNum * 20 < n THEN last.pageNum * 20 ELSE n
           IN  /\ r.status = 200
               /\ r.body.pages = CeilPages(n)
               /\ Cardinality(DOMAIN r.body.assets) <= 20
               /\ DOMAIN r.body.assets = {store[i].package_name : i \in from..to}
               /\ \A i \in from..to :
                     r.body.assets[store[i].package_name]
                         = [f \in DOMAIN r.body.assets[store[i].package_name]
                               |-> store[i][f]]
               /\ last.pageNum > r.body.pages => r.body.assets = <<>>
               /\ Len(last.sends) = 1

\* the second page of a catalog of more than 20 rows
C6_Witness ==
    /\ last.op = "list"
    /\ last.pc = "done"
    /\ last.pageNum = 2
    /\ Len(store) > PageSize
    /\ Response(last).body.assets # <<>>

\* the listing of a page on a catalog that does not change under it
StablePage(pageNum) ==
    Payload(FindAll(store, Offset(pageNum), PageSize), Count(store))

\* C7: on a catalog that stays as it is, the assets of pages 1..pages are
\* pairwise disjoint and together are exactly the rows of the catalog; the
\* listing answers these assets.
C7_PagesPartition ==
    LET pages == StablePage(1).pages
        items(p) == {<<k, StablePage(p).assets[k]>> : k \in DOMAIN StablePage(p).assets}
    IN  /\ \A p, q \in 1..pages : p # q => items(p) \cap items(q) = {}
        /\ UNION {items(p) : p \in 1..pages}
              = {<<store[i].package_name, Details(store[i])>> : i \in 1..Len(store)}
        /\ Cardinality(UNION {items(p) : p \in 1..pages}) = Len(store)
        /\ (last.op = "list" /\ last.pc = "done" /\ last.pageNum >= 1)
              => Response(last).body = StablePage(last.pageNum)

\* the third and last page of a catalog of more than 40 rows was listed
C7_Witness ==
    /\ last.op = "list"
    /\ last.pc = "done"
    /\ last.pageNum = 3
    /\ Len(store) > 2 * PageSize
    /\ StablePage(1).pages = 3
    /\ Response(last).body.assets # <<>>

\* C8: the listing takes page 1 when ?page= is absent or not a number, and
\* answers 400 "Page must be a positive number!" for every integer below
\* 1, zero included.
C8_PageParameter ==
    (last.op = "list" /\ last.pc = "findAll")
        => /\ last.page.kind \in {"absent", "junk"} => last.pageNum = 1
           /\ (last.page.kind = "int" /\ last.page.n < 1)
                => last.sends = <<ErrorReply(400, "Page must be a positive number!")>>

C10_UploadBadRequest ==
    [][(last'.op = "upload" /\ Authorized(last')
            /\ (last'.packagename = <<>> \/ last'.data = <<>>))
         => /\ Response(last').status \in 400..499
            /\ fs' = fs
            /\ store' = store]_vars

\* C11: no fault of the store or the filesystem leaves a handler uncaught:
\* every reply is one the handler itself sent, never the framework's
\* answer to a rejected handler.
C11_NoFaultEscapes ==
    \A i \in 1..Len(last.sends) : last.sends[i] # Unhandled

\* C16: a row or a directory that exists stays in every later state, and
\* the rows of a package name are never changed once inserted.
C16_NothingRemoved ==
    [][/\ Len(store') >= Len(store)
       /\ SubSeq(store', 1, Len(store)) = store
       /\ \A n \in Names :
             /\ RowsOf(store, n) # <<>> => RowsOf(store', n) = RowsOf(store, n)
             /\ DirExists(fs, n) => DirExists(fs', n)]_vars

\* both packages exist, one holds a file, and a further authorized create
\* with another body has just been answered
C16_Witness ==
    /\ Len(store) = 2
    /\ last.op = "create"
    /\ last.pc = "done"
    /\ Authorized(last)
    /\ last.body # Details(FindOne(store, last.uuid))
    /\ \E d \in DOMAIN fs : fs[d] # <<>>

\* C17: a listing answered with a non-empty set of assets for page p has
\* p <= pages, also when create-package requests run during the listing.
C17_PagesCoverItems ==
    (/\ last.op = "list"
     /\ last.pc = "done"
     /\ last.pageNum >= 1
     /\ Response(last).status = 200
     /\ Response(last).body.assets # <<>>)
        => last.pageNum <= Response(last).body.pages

C19_OneSendPerRequest ==
    Len(last.sends) <= 1

\* the state of the install toggle that the two buttons show
Toggle(doc) ==
    IF doc.install = "hidden" /\ doc.uninstall = "shown" THEN "Installed"
    ELSE IF doc.install = "shown" /\ doc.uninstall = "hidden" THEN "NotInstalled"
    ELSE "none"

\* C12: after every load of a package view the toggle is Installed exactly
\* when the package name is among the persisted themes or the persisted
\* plugins hold a descriptor of that name whose remove is not true, and
\* NotInstalled otherwise, whatever the views and round trips before it.
C12_ToggleFromStorage ==
    (event.type = "load" /\ view.buttons) =>
        Toggle(view) =
            IF \/ view.name \in themes
               \/ \E item \in plugins : item.name = view.name /\ item.remove # <<TRUE>>
            THEN "Installed" ELSE "NotInstalled"

C12_Witness ==
    /\ event.type = "load" /\ view.name = 3 /\ Toggle(view) = "NotInstalled"
    /\ \E item \in plugins : item.name = 3 /\ item.remove = <<TRUE>>
    /\ \E i \in 1..Len(pending) : pending[i].call = "install" /\ pending[i].args[2] = 3

\* C13: the install click calls the settings service with the argument
\* the record's type selects (theme: payload, video, bgImage; plugin-page:
\* a page plugin; any other type: a serviceWorker plugin), and the
\* uninstall click calls it with the record's type and the package name.
C13_Dispatch ==
    event.type = "click" =>
        LET record == FindOne(store, view.name)
        IN  IF event.call = "install"
            THEN event.args[1] =
                   IF record.type = "theme"
                   THEN [theme |-> [payload |-> record.payload,
                                    video |-> record.background_video,
                                    bgImage |-> record.background_image]]
                   ELSE [plugin |-> [name |-> view.name, src |-> record.payload,
                                     type |-> IF record.type = "plugin-page"
                                              THEN "page" ELSE "serviceWorker"]]
            ELSE event.args = <<record.type, view.name>>

C13_Witness ==
    /\ event.type = "click" /\ event.call = "install" /\ view.name = 3
    /\ event.args[1].plugin.type = "serviceWorker"

\* C14: within a view the toggle moves only when a round trip of that view
\* resolves, to Installed for an install and to NotInstalled for an
\* uninstall; a click and a failed round trip leave the view as it was.
C14_ToggleOnResolve ==
    [][/\ event'.type \in {"click", "failed"} => view' = view
       /\ view' # view => event'.type \in {"load", "resolved"}
       /\ event'.type = "resolved" =>
             IF ~event'.attached THEN view' = view
             ELSE /\ Toggle(view') = IF event'.call = "install"
                                     THEN "Installed" ELSE "NotInstalled"
                  /\ [view' EXCEPT !.install = view.install,
                                   !.uninstall = view.uninstall] = view]_vars

C14_Witness ==
    /\ event.type = "failed" /\ event.attached /\ event.call = "install"
    /\ Toggle(view) = "NotInstalled"
    /\ \E i \in 1..Len(pending) : pending[i].attached /\ pending[i].call = "install"

\* C15: a fetched record renders exactly one media element: the video when
\* background_video is set, else the background image when
\* background_image is set, else the plain image from image.
C15_MediaPriority ==
    (view.name # 0 /\ ~view.error) =>
        LET record == FindOne(store, view.name)
        IN  view.media =
              { IF record.background_video # Null
                THEN [branch |-> "video", src |-> record.background_video]
                ELSE IF record.background_image # Null
                THEN [branch |-> "background-image", src |-> record.background_image]
                ELSE [branch |-> "image", src |-> record.image] }

\* C20: a package view with buttons shows exactly one of Install and
\* Uninstall before and after every step, and a click reaches install only
\* with the toggle at NotInstalled and uninstall only with it at Installed.
C20_OneButton ==
    [][/\ view.buttons => Toggle(view) # "none"
       /\ view'.buttons => Toggle(view') # "none"
       /\ event'.type = "click" =>
             Toggle(view) = IF event'.call = "install"
                            THEN "NotInstalled" ELSE "Installed"]_vars

C20_Witness ==
    /\ event.type = "click" /\ event.call = "uninstall" /\ Toggle(view) = "Installed"
    /\ \E i \in 1..Len(pending) : pending[i].attached /\ pending[i].call = "install"

====
